---------------------------- MODULE Spec2Model ----------------------------
(***************************************************************************)
(* Model of the DHT sensor decoder of expodht (src/src/expodht/dht22.py):  *)
(* class Sensor, its rising-edge handler, its frame interpreter and its    *)
(* read() path, together with the pigpio tick arithmetic it relies on.     *)
(*                                                                         *)
(* Numbers.  TLC integers are 32-bit, Python integers are unbounded, so    *)
(*   - a tick or a tick difference is a pair <<q, r>> standing for the     *)
(*     integer q * 65536 + r with 0 <= r < 65536 (q is negative for a      *)
(*     negative integer);                                                  *)
(*   - the accumulator _code is a little-endian sequence of base-256       *)
(*     digits without leading zero digits (<<>> is 0), so byte k of the    *)
(*     word is digit k+1;                                                  *)
(*   - temperature and humidity are kept in tenths (the float n / 10.0 is  *)
(*     kept as the integer n, the DHT11 integer b as 10 * b).              *)
(***************************************************************************)
EXTENDS Integers, Sequences, FiniteSets, TLC

(***************************************************************************)
(* Program constants (dht22.py lines 9-16).                                *)
(***************************************************************************)
DHTAUTO == 0
DHT11 == 1
DHTXX == 2

DHT_GOOD == 0
DHT_BAD_CHECKSUM == 1
DHT_BAD_DATA == 2
DHT_TIMEOUT == 3

Models == {DHTAUTO, DHT11, DHTXX}

(***************************************************************************)
(* Two-limb integers: ticks are unsigned 32-bit values of pigpio.          *)
(***************************************************************************)
Limb == 256 * 256

\* The pair for q * 65536 + r, brought to 0 <= r < 65536.
Num(q, r) == <<q + (r \div Limb), r % Limb>>

NumOfInt(n) == Num(0, n)

NumSub(a, b) == Num(a[1] - b[1], a[2] - b[2])

NumAdd(a, b) == Num(a[1] + b[1], a[2] + b[2])

NumNeg(a) == a[1] < 0

\* a > n, a <= n ... for a small natural n (n < 65536).
NumGt(a, n) == a[1] > 0 \/ (a[1] = 0 /\ a[2] > n)

NumGe(a, n) == a[1] > 0 \/ (a[1] = 0 /\ a[2] >= n)

NumLe(a, n) == ~NumGt(a, n)

\* pigpio.tickDiff(t1, t2): t2 - t1, plus 2^32 when that is negative.
tickDiff(t1, t2) ==
    LET tDiff == NumSub(t2, t1)
    IN  IF NumNeg(tDiff) THEN NumAdd(tDiff, <<Limb, 0>>) ELSE tDiff

\* A tick of the 32-bit counter d microseconds after tick t.
TickAfter(t, d) ==
    LET s == NumAdd(t, d)
    IN  <<s[1] % Limb, s[2]>>

(***************************************************************************)
(* The accumulator: an unbounded natural in base 256, least digit first.   *)
(***************************************************************************)
RECURSIVE ShlCarry(_, _)
ShlCarry(c, carry) ==
    IF c = <<>>
    THEN IF carry = 0 THEN <<>> ELSE <<carry>>
    ELSE LET v == 2 * Head(c) + carry
         IN  <<v % 256>> \o ShlCarry(Tail(c), v \div 256)

\* code <<= 1
ShiftLeft(c) == ShlCarry(c, 0)

RECURSIVE AddOne(_)
\* code += 1
AddOne(c) ==
    IF c = <<>> THEN <<1>>
    ELSE IF Head(c) < 255 THEN <<Head(c) + 1>> \o Tail(c)
    ELSE <<0>> \o AddOne(Tail(c))

\* (code >> (8 * k)) & 0xFF
ByteOf(c, k) == IF k + 1 <= Len(c) THEN c[k + 1] ELSE 0

\* (code >> j) & 1
BitAt(c, j) == (ByteOf(c, j \div 8) \div (2 ^ (j % 8))) % 2

\* The number of binary digits of code (0 for 0).
RECURSIVE BitLen8(_)
BitLen8(b) == IF b = 0 THEN 0 ELSE 1 + BitLen8(b \div 2)

BitLength(c) == IF c = <<>> THEN 0 ELSE 8 * (Len(c) - 1) + BitLen8(c[Len(c)])

(***************************************************************************)
(* The interpreter (dht22.py lines 77-147).                                *)
(***************************************************************************)
validate_DHT11_from0(b1, b2, b3, b4) ==
    LET t == b2
        h == b4
        valid == (b1 = 0) /\ (b3 = 0) /\ (t <= 60) /\ (h >= 0) /\ (h <= 90)
    IN  <<valid, 10 * t, 10 * h>>

validate_DHT11_below60(b1, b2, b3, b4) ==
    LET t == b2
        h == b4
        valid == (b1 = 0) /\ (b3 = 0) /\ (t < 60) /\ (h >= 9) /\ (h <= 90)
    IN  <<valid, 10 * t, 10 * h>>

\* _validate_DHT11: <<valid, t, h>>, t and h in tenths.
validate_DHT11(b1, b2, b3, b4) ==
    LET t == b2
        h == b4
        valid == (b1 = 0) /\ (b3 = 0) /\ (t <= 60) /\ (h >= 9) /\ (h <= 90)
    IN  <<valid, 10 * t, 10 * h>>

\* b2 & 128 and b2 & 127
SignBit(b2) == (b2 \div 128) % 2

Magnitude(b2) == b2 % 128

validate_DHTXX_above50(b1, b2, b3, b4) ==
    LET n == (Magnitude(b2) * 256) + b1
        t == IF SignBit(b2) # 0 THEN -n ELSE n
        h == (b4 * 256) + b3
        valid == (h <= 1100) /\ (t > -500) /\ (t <= 1350)
    IN  <<valid, t, h>>

\* _validate_DHTXX: <<valid, t, h>>, t and h in tenths, so that the bounds
\* 110.0, -50.0 and 135.0 are 1100, -500 and 1350.
validate_DHTXX(b1, b2, b3, b4) ==
    LET n == (Magnitude(b2) * 256) + b1
        t == IF SignBit(b2) # 0 THEN -n ELSE n
        h == (b4 * 256) + b3
        valid == (h <= 1100) /\ (t >= -500) /\ (t <= 1350)
    IN  <<valid, t, h>>

ChksumUnmasked(b1, b2, b3, b4) == b1 + b2 + b3 + b4

\* chksum = (b1 + b2 + b3 + b4) & 0xFF
Chksum(b1, b2, b3, b4) == (b1 + b2 + b3 + b4) % 256

InterpretNoFallback(m, b1, b2, b3, b4) ==
    IF m = DHT11 THEN validate_DHT11(b1, b2, b3, b4)
    ELSE validate_DHTXX(b1, b2, b3, b4)

\* The model dispatch of _decode_dhtxx (lines 129-138).
Interpret(m, b1, b2, b3, b4) ==
    IF m = DHT11 THEN validate_DHT11(b1, b2, b3, b4)
    ELSE IF m = DHTXX THEN validate_DHTXX(b1, b2, b3, b4)
    ELSE LET x == validate_DHTXX(b1, b2, b3, b4)
         IN  IF ~x[1] THEN validate_DHT11(b1, b2, b3, b4) ELSE x

FrameBytesReversed(c) ==
    <<ByteOf(c, 4), ByteOf(c, 3), ByteOf(c, 2), ByteOf(c, 1), ByteOf(c, 0)>>

\* The bytes b0..b4 _decode_dhtxx takes from the word (lines 120-124), as
\* <<b0, b1, b2, b3, b4>>.
FrameBytes(c) ==
    <<ByteOf(c, 0), ByteOf(c, 1), ByteOf(c, 2), ByteOf(c, 3), ByteOf(c, 4)>>

\* _decode_dhtxx: the fields it leaves, given the fields it finds.
\* [status, temperature, humidity, new_data]
decode_dhtxx(c, m, temp, hum) ==
    LET b0 == FrameBytes(c)[1]
        b1 == FrameBytes(c)[2]
        b2 == FrameBytes(c)[3]
        b3 == FrameBytes(c)[4]
        b4 == FrameBytes(c)[5]
        chksum == Chksum(b1, b2, b3, b4)
        r == Interpret(m, b1, b2, b3, b4)
    IN  IF chksum = b0
        THEN IF r[1]
             THEN [status |-> DHT_GOOD, temperature |-> r[2], humidity |-> r[3],
                   new_data |-> TRUE]
             ELSE [status |-> DHT_BAD_DATA, temperature |-> temp,
                   humidity |-> hum, new_data |-> TRUE]
        ELSE [status |-> DHT_BAD_CHECKSUM, temperature |-> temp,
              humidity |-> hum, new_data |-> TRUE]


(***************************************************************************)
(* The pulse classification of _rising_edge (dht22.py lines 152-168).      *)
(***************************************************************************)
IsStartGapFrom10000(edge_len) == NumGe(edge_len, 10000)

\* edge_len > 10000
IsStartGap(edge_len) == NumGt(edge_len, 10000)

\* (edge_len >= 60) and (edge_len <= 150)
IsDataPulse(edge_len) == NumGe(edge_len, 60) /\ NumLe(edge_len, 150)

IsOneBitFrom100(edge_len) == NumGe(edge_len, 100)

\* edge_len > 100
IsOneBit(edge_len) == NumGt(edge_len, 100)

FrameCompleteAt41(b) == b = 41

FrameCompleteAt39(b) == b = 39

\* self._bits == 40
FrameComplete(b) == b = 40

PastDiscardsFrom0(b) == b >= 0

InFrameAlways(ic) == TRUE

\* elif self._in_code
InFrame(ic) == ic

\* self._bits >= 1
PastDiscards(b) == b >= 1

(***************************************************************************)
(* Bounds of the model.                                                    *)
(***************************************************************************)
\* Start gaps (transmissions begun) and calls of read() in one behaviour
\* of the sensor with its reader.
MaxGaps == 2
MaxReads == 1
\* The decoder alone: start gaps, and one-bits and glitches (edges whose
\* interval is not the one the transmission calls for) together, in one
\* behaviour.
BenchGaps == 2
MaxOdd == 1
\* The sensor being detached: start gaps, edges on the line after the
\* handler was detached.
CancelGaps == 1
MaxDropped == 44

(***************************************************************************)
(* The line: what the sensor and the noise put on it.                      *)
(***************************************************************************)
\* The words the sensor sends, five bytes <<b0, b1, b2, b3, b4>>; bit 39
\* (b4's top bit) is sent first.
WordZero == <<0, 0, 0, 0, 0>>
WordDHT11 == <<65, 0, 25, 0, 40>>
WordBadSum == <<66, 0, 25, 0, 40>>

SensorWords == {WordZero, WordDHT11, WordBadSum}

\* Whether a transmission may send bit b as data bit k (1..40), the words
\* in c being those that agree with the bits it has sent and n one-bits
\* and glitches having been sent before: it sends one of the words or,
\* there being no words, any bit while n allows a one.
Agreeing(c, k, b) == {w \in c : BitAt(w, 40 - k) = b}

Allowed(c, k, b, n, words, maxOdd) ==
    IF words = {} THEN b = 0 \/ n < maxOdd
    ELSE Agreeing(c, k, b) # {}

\* Pulse profiles of a transmission: the lengths of a 0 and of a 1.
Typical == <<76, 120>>
Boundary == {<<60, 150>>, <<100, 101>>}
\* The lengths of the two intervals that precede the data bits.
DiscardLens == {80}
GlitchLens == {59, 80, 151, 10000}

\* Ticks at which a transmission may start: 2000 ticks before the counter
\* wraps, so that the frame straddles the wraparound.
NearWrap == <<Limb - 1, Limb - 2000>>
\* pi.get_current_tick() at construction.
ConstructionTicks == {NumOfInt(5000)}

NoDatum == [status |-> -1, temperature |-> 0, humidity |-> 0]

\* No call of the handler is in flight.
NoCall == <<>>

VARIABLES
    \* Sensor fields
    model, callback, new_data, in_code, bits, code, status, temperature,
    humidity, last_edge_tick, cb_id,
    \* read(): its position, loop index, the tuple being built, its result
    pc, i, datum, ret,
    \* the observer: invocations and the last tuple it received
    cb_calls, cb_last,
    \* the line: the tick of its last edge, the words that agree with the
    \* bits sent and the profile of the transmission, the edges sent since
    \* the start gap (0: nothing is being sent), the glitches so far and,
    \* on a line that sends no words, the one-bits
    now, cands, profile, sent, odd,
    \* the tick of the handler call that has begun and not yet run (NoCall:
    \* none)
    inflight,
    \* bounds' counters
    gaps, reads, dropped,
    \* history: frames interpreted; frames interpreted and edges delivered
    \* since the running read() began (as of its return once it returned);
    \* intervals accepted since the last start gap (-1: none or aborted); the
    \* bits of the data intervals since the last start gap, first bit first;
    \* the fate of the frames' readings
    frames, frames_in_read, edges_in_read, run, expect, fstate

sensor_vars == <<model, callback, new_data, in_code, bits, code, status,
                 temperature, humidity, last_edge_tick, cb_id>>
decoder_vars == <<in_code, bits, code, last_edge_tick>>
read_vars == <<pc, i, datum, ret, cb_calls, cb_last, reads>>
line_vars == <<now, cands, profile, sent, odd, gaps, dropped, inflight>>
hist_vars == <<frames, frames_in_read, edges_in_read, run, expect, fstate>>
vars == <<sensor_vars, read_vars, line_vars, hist_vars>>

(***************************************************************************)
(* Sensor.__init__ (dht22.py lines 48-66), for a model, a callback or none *)
(* and a current tick.                                                     *)
(***************************************************************************)
SensorInit(ms, cbs, ticks) ==
    /\ model \in ms
    /\ callback \in cbs
    /\ new_data = FALSE
    /\ in_code = FALSE
    /\ bits = 0
    /\ code = <<>>
    /\ status = DHT_TIMEOUT
    /\ temperature = 0
    /\ humidity = 0
    /\ \E t \in ticks :
          /\ last_edge_tick = NumSub(t, NumOfInt(10000))
          /\ now = t
    /\ cb_id = TRUE

RestInit ==
    /\ pc = "idle" /\ i = 0 /\ datum = NoDatum /\ ret = NoDatum
    /\ cb_calls = 0 /\ cb_last = NoDatum
    /\ cands = {} /\ profile = Typical /\ sent = 0 /\ odd = 0
    /\ gaps = 0 /\ reads = 0 /\ dropped = 0 /\ inflight = NoCall
    /\ frames = 0 /\ frames_in_read = 0 /\ edges_in_read = 0
    /\ run = -1 /\ expect = <<>> /\ fstate = "none"

Init == SensorInit(Models, {TRUE}, {NumOfInt(70000)}) /\ RestInit

\* The natural number of a little-endian sequence of bytes.
RECURSIVE NatOfBytes(_)
NatOfBytes(bs) ==
    IF bs = <<>> THEN <<>>
    ELSE IF bs[Len(bs)] = 0 THEN NatOfBytes(SubSeq(bs, 1, Len(bs) - 1))
    ELSE bs

(***************************************************************************)
(* Sensor._rising_edge (dht22.py lines 149-170) with the call of           *)
(* _decode_dhtxx it makes: the fields one invocation of the handler        *)
(* leaves, and whether it ran the interpreter.                             *)
(***************************************************************************)
rising_edge(tick) ==
    LET edge_len == tickDiff(last_edge_tick, tick)
        same == [in_code |-> in_code, bits |-> bits, code |-> code,
                 status |-> status, temperature |-> temperature,
                 humidity |-> humidity, new_data |-> new_data,
                 last_edge_tick |-> tick, decoded |-> FALSE]
    IN  IF IsStartGap(edge_len)
        THEN [same EXCEPT !.in_code = TRUE, !.bits = -2, !.code = <<>>]
        ELSE IF InFrame(in_code)
        THEN LET bits1 == bits + 1
                 shifted == IF PastDiscards(bits1) THEN ShiftLeft(code)
                            ELSE code
                 code1 == IF PastDiscards(bits1) /\ IsDataPulse(edge_len)
                             /\ IsOneBit(edge_len)
                          THEN AddOne(shifted) ELSE shifted
                 in1 == IF PastDiscards(bits1) /\ ~IsDataPulse(edge_len)
                        THEN FALSE ELSE in_code
                 d == decode_dhtxx(code1, model, temperature, humidity)
             IN  IF in1 /\ FrameComplete(bits1)
                 THEN [same EXCEPT !.bits = bits1, !.code = code1,
                                   !.status = d.status,
                                   !.temperature = d.temperature,
                                   !.humidity = d.humidity,
                                   !.new_data = d.new_data,
                                   !.in_code = FALSE, !.decoded = TRUE]
                 ELSE [same EXCEPT !.bits = bits1, !.code = code1,
                                   !.in_code = in1]
        ELSE same

(***************************************************************************)
(* The record of what the line carried, kept beside the program's state.   *)
(***************************************************************************)
\* The interval of an edge as a small number (10001 for anything longer).
Interval(len) == IF len[1] # 0 \/ len[2] > 10000 THEN 10001 ELSE len[2]

\* Intervals accepted since the last start gap, after one more of length d.
RunAfter(d) ==
    IF d > 10000 THEN 0
    ELSE IF run < 0 \/ run >= 42 THEN -1
    ELSE IF run < 2 THEN run + 1
    ELSE IF d >= 60 /\ d <= 150 THEN run + 1
    ELSE -1

\* The bits of the data intervals since the last start gap.
ExpectAfter(d) ==
    IF RunAfter(d) <= 0 THEN <<>>
    ELSE IF RunAfter(d) <= 2 THEN expect
    ELSE Append(expect, IF d > 100 THEN 1 ELSE 0)

\* What became of the readings of the frames interpreted so far: "lost"
\* once the status of a frame was overwritten before any callback
\* invocation carried it.
FateAfterDecode == IF fstate \in {"unreported", "lost"} THEN "lost"
                   ELSE "unreported"

FateAfterReset == IF fstate \in {"unreported", "lost"} THEN "lost"
                  ELSE fstate

\* read() has put the status st in the tuple it will pass to the callback.
FateAfterDatum(st) ==
    IF fstate = "unreported" /\ callback /\ st # DHT_TIMEOUT THEN "reported"
    ELSE fstate

(***************************************************************************)
(* An edge on the line.  pigpio, which is not part of the program, calls   *)
(* the handler registered with pi.callback (line 66) for every rising edge *)
(* and calls it no more for edges that come once cancel (lines 183-187)    *)
(* has taken it off: Registered and Drop state that contract of the edge   *)
(* subscription.  A call to the handler that had begun before is not       *)
(* undone by cancel: _rising_edge looks at no registration.                *)
(***************************************************************************)
Registered == cb_id

FirstEdge == gaps = 0 /\ odd = 0 /\ dropped = 0

\* The edges the line may carry next: [tick, kind, bit, profile].
GapEdges(profiles, maxGaps) ==
    IF gaps < maxGaps
    THEN {[tick |-> t, kind |-> "gap", bit |-> 0, profile |-> p] :
            t \in {x \in {NearWrap} \cup
                           (IF FirstEdge THEN {TickAfter(now, <<0, 1>>)}
                            ELSE {}) :
                     NumGt(tickDiff(now, x), 10000) \/ FirstEdge},
            p \in profiles}
    ELSE {}

DataEdges(words, maxOdd) ==
    IF sent >= 1 /\ sent <= 2
    THEN {[tick |-> TickAfter(now, <<0, d>>), kind |-> "data",
           bit |-> 0, profile |-> profile] : d \in DiscardLens}
    ELSE IF sent >= 3 /\ sent < 43
    THEN {[tick |-> TickAfter(now, <<0, profile[b + 1]>>), kind |-> "data",
           bit |-> b, profile |-> profile] :
            b \in {x \in {0, 1} :
                     Allowed(cands, sent - 2, x, odd, words, maxOdd)}}
    ELSE {}

GlitchEdges(maxOdd) ==
    IF odd < maxOdd
    THEN {[tick |-> TickAfter(now, <<0, d>>), kind |-> "glitch",
           bit |-> 1, profile |-> profile] : d \in GlitchLens}
    ELSE {}

SentAfter(kind) ==
    CASE kind = "gap" -> 1
      [] kind = "data" -> IF sent = 42 THEN 0 ELSE sent + 1
      [] OTHER -> IF sent \in 1..2 THEN sent + 1 ELSE 0

Deliver(tick) ==
    LET r == rising_edge(tick)
        d == Interval(tickDiff(last_edge_tick, tick))
    IN  /\ in_code' = r.in_code
        /\ bits' = r.bits
        /\ code' = r.code
        /\ status' = r.status
        /\ temperature' = r.temperature
        /\ humidity' = r.humidity
        /\ new_data' = r.new_data
        /\ last_edge_tick' = r.last_edge_tick
        /\ frames' = IF r.decoded THEN frames + 1 ELSE frames
        /\ frames_in_read' = IF r.decoded /\ pc # "idle"
                             THEN frames_in_read + 1 ELSE frames_in_read
        /\ edges_in_read' = IF pc # "idle" THEN 1 ELSE edges_in_read
        /\ run' = RunAfter(d)
        /\ expect' = ExpectAfter(d)
        /\ fstate' = IF r.decoded THEN FateAfterDecode ELSE fstate
        /\ UNCHANGED dropped

Drop ==
    /\ dropped < MaxDropped
    /\ dropped' = dropped + 1
    /\ UNCHANGED <<in_code, bits, code, status, temperature, humidity,
                   new_data, last_edge_tick, hist_vars>>

\* The edges the line may carry next.
EdgesOf(words, profiles, maxGaps, maxOdd) ==
    GapEdges(profiles, maxGaps) \cup DataEdges(words, maxOdd)
        \cup GlitchEdges(maxOdd)

\* The line once it has carried the edge e.
LineAfter(e, words) ==
    /\ now' = e.tick
    /\ cands' = IF e.kind = "gap" THEN words
                 ELSE IF e.kind = "data" /\ sent >= 3
                 THEN Agreeing(cands, sent - 2, e.bit)
                 ELSE cands
    /\ profile' = e.profile
    /\ sent' = SentAfter(e.kind)
    /\ odd' = IF e.kind = "glitch" \/ words = {} THEN odd + e.bit
               ELSE odd
    /\ gaps' = IF e.kind = "gap" THEN gaps + 1 ELSE gaps

\* An edge and the handler's run for it in one step: nothing else of the
\* program writes what the handler reads or is detached meanwhile.
Edge(words, profiles, maxGaps, maxOdd) ==
    \E e \in EdgesOf(words, profiles, maxGaps, maxOdd) :
        /\ LineAfter(e, words)
        /\ IF Registered THEN Deliver(e.tick) ELSE Drop
        /\ UNCHANGED <<model, callback, cb_id, read_vars, inflight>>

\* An edge for which the callback thread begins a call of the handler, the
\* call before it having run; the handler's body has yet to run.
Call(words, profiles, maxGaps, maxOdd) ==
    /\ inflight = NoCall
    /\ \E e \in EdgesOf(words, profiles, maxGaps, maxOdd) :
          /\ LineAfter(e, words)
          /\ IF Registered
             THEN /\ inflight' = e.tick
                  /\ UNCHANGED <<in_code, bits, code, status, temperature,
                                 humidity, new_data, last_edge_tick,
                                 hist_vars, dropped>>
             ELSE Drop /\ UNCHANGED inflight
          /\ UNCHANGED <<model, callback, cb_id, read_vars>>

\* The call in flight runs: _rising_edge with the tick it was called with.
Handle ==
    /\ inflight # NoCall
    /\ Deliver(inflight)
    /\ inflight' = NoCall
    /\ UNCHANGED <<model, callback, cb_id, read_vars, now, cands, profile,
                   sent, odd, gaps>>

SensorEdge == Edge(SensorWords, {Typical}, MaxGaps, 0)

BenchEdge == Edge({}, Boundary, BenchGaps, MaxOdd)

CancelCall == Call(SensorWords, {Typical}, CancelGaps, 0)

(***************************************************************************)
(* Sensor.cancel (dht22.py lines 183-187).  It waits for no call of the    *)
(* handler in flight on the callback thread.                               *)
(***************************************************************************)
Cancel ==
    /\ cb_id
    /\ cb_id' = FALSE
    /\ UNCHANGED <<model, callback, new_data, in_code, bits, code, status,
                   temperature, humidity, last_edge_tick, read_vars,
                   line_vars, hist_vars>>

(***************************************************************************)
(* Sensor.read (dht22.py lines 189-213) with _trigger (172-181) and        *)
(* _datum (68-75), one step per statement that reads or writes a field     *)
(* the handler also writes.                                                *)
(***************************************************************************)
\* for i in range(5)
PollSteps == 5

\* read() is called; _trigger: self._new_data = False
ReadCall(maxReads) ==
    /\ pc = "idle"
    /\ reads < maxReads
    /\ reads' = reads + 1
    /\ new_data' = FALSE
    /\ pc' = "trigger"
    /\ i' = 0
    /\ datum' = NoDatum
    /\ frames_in_read' = 0
    /\ edges_in_read' = 0
    /\ UNCHANGED <<model, callback, in_code, bits, code, status, temperature,
                   humidity, last_edge_tick, cb_id, ret, cb_calls, cb_last,
                   line_vars, frames, run, expect, fstate>>

TriggerKeepsStatus(st) == st

\* The status _trigger leaves.
TriggerStatus(st) == DHT_TIMEOUT

\* _trigger: self._status = DHT_TIMEOUT, then the pulse on the line
Trigger ==
    /\ pc = "trigger"
    /\ status' = TriggerStatus(status)
    /\ fstate' = IF status' # status THEN FateAfterReset ELSE fstate
    /\ pc' = "poll"
    /\ UNCHANGED <<model, callback, new_data, in_code, bits, code,
                   temperature, humidity, last_edge_tick, cb_id, i, datum,
                   ret, cb_calls, cb_last, reads, line_vars, frames,
                   frames_in_read, edges_in_read, run, expect>>

\* Whether the loop of read() is left after the check of iteration k (0-based).
LoopEnds(k, nd) == nd \/ k + 1 >= PollSteps

\* One iteration: time.sleep(0.05); if self._new_data: break
Poll ==
    /\ pc = "poll"
    /\ i' = i + 1
    /\ pc' = IF LoopEnds(i, new_data) THEN "datum_status" ELSE "poll"
    /\ UNCHANGED <<sensor_vars, datum, ret, cb_calls, cb_last, reads,
                   line_vars, hist_vars>>

\* _datum reads self._status, self._temperature, self._humidity in turn
DatumStatus ==
    /\ pc = "datum_status"
    /\ datum' = [datum EXCEPT !.status = status]
    /\ fstate' = FateAfterDatum(status)
    /\ pc' = "datum_temperature"
    /\ UNCHANGED <<sensor_vars, i, ret, cb_calls, cb_last, reads, line_vars,
                   frames, frames_in_read, edges_in_read, run, expect>>

DatumTemperature ==
    /\ pc = "datum_temperature"
    /\ datum' = [datum EXCEPT !.temperature = temperature]
    /\ pc' = "datum_humidity"
    /\ UNCHANGED <<sensor_vars, i, ret, cb_calls, cb_last, reads, line_vars,
                   hist_vars>>

DatumHumidity ==
    /\ pc = "datum_humidity"
    /\ datum' = [datum EXCEPT !.humidity = humidity]
    /\ pc' = "callback"
    /\ UNCHANGED <<sensor_vars, i, ret, cb_calls, cb_last, reads, line_vars,
                   hist_vars>>

CallbackUnlessTimeout(cb, d) == cb /\ d.status # DHT_TIMEOUT

\* if self._callback is not None
CallbackInvoked(cb, d) == cb

\* self._callback(datum); return datum
Return ==
    /\ pc = "callback"
    /\ IF CallbackInvoked(callback, datum)
       THEN /\ cb_calls' = cb_calls + 1
            /\ cb_last' = datum
       ELSE UNCHANGED <<cb_calls, cb_last>>
    /\ ret' = datum
    /\ pc' = "idle"
    /\ UNCHANGED <<sensor_vars, i, datum, reads, line_vars, hist_vars>>

ReadNext ==
    \/ Trigger
    \/ Poll
    \/ DatumStatus
    \/ DatumTemperature
    \/ DatumHumidity
    \/ Return

(***************************************************************************)
(* The sensor on its line with a reader calling read().                    *)
(***************************************************************************)
Next ==
    \/ SensorEdge
    \/ ReadCall(MaxReads)
    \/ ReadNext

Spec == Init /\ [][Next]_vars

(***************************************************************************)
(* The sensor on its line with cancel(), the handler's calls on the        *)
(* callback thread beginning and running as separate steps.                *)
(***************************************************************************)
CancelNext ==
    \/ CancelCall
    \/ Handle
    \/ Cancel

CancelSpec == Init /\ [][CancelNext]_vars

(***************************************************************************)
(* The decoder alone, on a line that carries any bits at the boundary      *)
(* pulse lengths, and glitches, MaxOdd one-bits and glitches in all.       *)
(***************************************************************************)
BenchInit == SensorInit({DHTAUTO}, {FALSE}, ConstructionTicks) /\ RestInit

BenchNext == BenchEdge

BenchSpec == BenchInit /\ [][BenchNext]_vars


(***************************************************************************)
(* The interpreter alone: _decode_dhtxx applied once to a 40-bit word, for *)
(* each model, data bytes around the bounds of the two interpretations,    *)
(* and a checksum byte that is the sum of the data bytes or one more.      *)
(***************************************************************************)
TempLow == {0, 1, 70, 71, 144, 244, 245}
TempHigh == {0, 5, 60, 61, 127, 128, 129, 255}
HumLow == {0, 1, 76, 77}
HumHigh == {0, 4, 8, 9, 90, 91}
\* temperature and humidity left by an earlier frame
Earlier == {<<0, 0>>, <<215, 480>>}

\* The sensor as _rising_edge leaves it to _decode_dhtxx: 40 bits in.
InterpInit ==
    /\ model \in Models
    /\ callback = FALSE
    /\ new_data = FALSE
    /\ in_code = TRUE
    /\ bits = 40
    /\ status = DHT_TIMEOUT
    /\ last_edge_tick = NumOfInt(70000)
    /\ now = NumOfInt(70000)
    /\ cb_id = TRUE
    /\ \E b1 \in TempLow, b2 \in TempHigh, b3 \in HumLow, b4 \in HumHigh,
          off \in {0, 1}, th \in Earlier :
          /\ code = NatOfBytes(<<(b1 + b2 + b3 + b4 + off) % 256,
                                 b1, b2, b3, b4>>)
          /\ temperature = th[1]
          /\ humidity = th[2]
    /\ RestInit

InterpNext ==
    LET d == decode_dhtxx(code, model, temperature, humidity)
    IN  /\ frames = 0
        /\ frames' = 1
        /\ status' = d.status
        /\ temperature' = d.temperature
        /\ humidity' = d.humidity
        /\ new_data' = d.new_data
        /\ in_code' = FALSE
        /\ UNCHANGED <<model, callback, bits, code, last_edge_tick, cb_id,
                       read_vars, line_vars, frames_in_read, edges_in_read,
                       run, expect, fstate>>

InterpSpec == InterpInit /\ [][InterpNext]_vars

(***************************************************************************)
(* The claims.                                                             *)
(***************************************************************************)
\* read() calls that have returned.
Returned == IF pc = "idle" THEN reads ELSE reads - 1

\* C1 as stated: the callback is never invoked for a timeout; every tuple
\* it receives has status GOOD, BAD_CHECKSUM or BAD_DATA.
C1_CallbackNeverTimeout == cb_calls > 0 => cb_last.status # DHT_TIMEOUT

\* C1 amended: with a callback given, every read() that returns has
\* invoked it exactly once, with the very tuple read() returns, whatever its
\* status (DHT_TIMEOUT included), and nothing else invokes it.
C1_CallbackEveryRead ==
    /\ cb_calls = Returned
    /\ cb_last = ret
    /\ cb_calls > 0 => cb_last.status \in {DHT_GOOD, DHT_BAD_CHECKSUM,
                                            DHT_BAD_DATA, DHT_TIMEOUT}

C1_Witness ==
    pc = "idle" /\ cb_calls > 0 /\ cb_last.status = DHT_TIMEOUT
    /\ ret.status = DHT_TIMEOUT

\* C2 as stated: every frame the decoder completes leads to one callback
\* invocation carrying that frame's reading; so no frame's status is
\* overwritten (by _trigger or by a later frame) before read() has taken it
\* into the tuple it passes to the callback.
C2_EveryFrameReported == fstate # "lost"

\* C3: read() never makes more than five polling steps and is never
\* blocked, and a read() during which no edge was delivered makes all five
\* and returns DHT_TIMEOUT, whatever status was left before it.
C3_QuietReadTimesOut ==
    /\ i <= PollSteps
    /\ pc = "poll" => i < PollSteps
    /\ pc # "idle" => ENABLED ReadNext
    /\ (pc = "idle" /\ reads > 0 /\ edges_in_read = 0)
          => (ret.status = DHT_TIMEOUT /\ i = PollSteps)

\* A frame was interpreted before the one read(), which saw no edge.
C3_Witness ==
    pc = "idle" /\ reads = 1 /\ edges_in_read = 0 /\ frames > 0
    /\ ret.status = DHT_TIMEOUT /\ i = PollSteps

\* C4 as stated: read() returns DHT_TIMEOUT only if no frame was interpreted
\* between its first statement and its return.
C4_TimeoutOnlyWithoutFrame ==
    (pc = "idle" /\ reads > 0 /\ ret.status = DHT_TIMEOUT)
        => frames_in_read = 0

\* C5 as stated: once cancel() has returned, no step changes _in_code,
\* _bits, _code, _last_edge_tick, status, temperature, humidity or
\* _new_data, and no frame is interpreted.
C5_DetachedIsFrozen ==
    [][~cb_id => UNCHANGED <<in_code, bits, code, last_edge_tick, status,
                             temperature, humidity, new_data, frames>>]_vars

\* C6: the handler interprets a frame, and writes status, _new_data,
\* temperature or humidity, only on the edge that closes the 40th data
\* interval after a start gap, two discard intervals and 40 intervals in
\* [60,150] in a row; the edge that aborts a frame with a bad pulse width
\* leaves _in_code false and those four fields as they were.
C6_OnlyWholeFramesInterpreted ==
    [][/\ frames' # frames => (run = 41 /\ run' = 42)
       /\ (status' # status \/ new_data' # new_data
             \/ temperature' # temperature \/ humidity' # humidity)
            => frames' # frames
       /\ (run >= 2 /\ run <= 41 /\ run' = -1)
            => (~in_code' /\ frames' = frames)]_vars

\* A frame was interpreted, and the next one was aborted in its data bits.
C6_Witness ==
    frames = 1 /\ new_data /\ gaps = 2 /\ ~in_code /\ bits >= 1 /\ bits < 40
    /\ run = -1

\* C7: the accumulator handed to the interpreter is the word of the 40 data
\* intervals, first interval in bit 39: bit 40-k is 1 iff interval k is
\* longer than 100, and nothing lies above bit 39.
C7_AccumulatorIsTheDataBits ==
    [][frames' # frames =>
          /\ Len(expect') = 40
          /\ BitLength(code') <= 40
          /\ \A k \in 1..40 : BitAt(code', 40 - k) = expect'[k]]_vars

\* A frame at the pulse lengths 100 and 101 with a one-bit was interpreted.
C7_Witness ==
    frames = 1 /\ run = 42 /\ profile = <<100, 101>> /\ code # <<>>
    /\ \E k \in 1..40 : expect[k] = 1

\* The byte that the bits j..j+7 of what the line carried spell.
ByteSent(j) ==
    128 * expect[j] + 64 * expect[j + 1] + 32 * expect[j + 2]
    + 16 * expect[j + 3] + 8 * expect[j + 4] + 4 * expect[j + 5]
    + 2 * expect[j + 6] + expect[j + 7]

\* C8 as stated: b0, the byte compared with the checksum, is the byte sent
\* first (the first eight data intervals), and b4 the byte sent last.
C8_ChecksumByteSentFirst ==
    [][frames' # frames =>
          /\ FrameBytes(code')[1] = ByteSent(1)'
          /\ FrameBytes(code')[5] = ByteSent(33)']_vars

\* C8 amended: b0, the byte compared with the checksum, is the byte sent
\* last (the last eight data intervals), and b4 the byte sent first.
C8_ChecksumByteSentLast ==
    [][frames' # frames =>
          /\ FrameBytes(code')[1] = ByteSent(33)'
          /\ FrameBytes(code')[5] = ByteSent(1)']_vars

\* A frame whose last eight data bits spell 1 was interpreted.
C8_Witness ==
    frames = 1 /\ run = 42 /\ FrameBytes(code)[1] = 1 /\ expect[40] = 1

\* C9: for every word and model the status is BAD_CHECKSUM exactly when b0
\* differs from (b1 + b2 + b3 + b4) mod 256, and GOOD or BAD_DATA otherwise.
C9_BadChecksumIffSumDiffers ==
    frames = 1 =>
        LET b0 == ByteOf(code, 0)
            sum == (ByteOf(code, 1) + ByteOf(code, 2) + ByteOf(code, 3)
                    + ByteOf(code, 4)) % 256
        IN  /\ (status = DHT_BAD_CHECKSUM) <=> (b0 # sum)
            /\ b0 = sum => status \in {DHT_GOOD, DHT_BAD_DATA}

\* A word whose data bytes sum to 256 or more, with the right checksum.
C9_Witness ==
    /\ frames = 1
    /\ status # DHT_BAD_CHECKSUM
    /\ ByteOf(code, 1) + ByteOf(code, 2) + ByteOf(code, 3) + ByteOf(code, 4)
         >= 256

\* C10: under DHT11 a word with the right checksum is GOOD with temperature
\* b2 and humidity b4 exactly when b1 = 0, b3 = 0, b2 <= 60 and
\* 9 <= b4 <= 90, and BAD_DATA otherwise.
C10_DHT11Bounds ==
    (frames = 1 /\ model = DHT11 /\ status # DHT_BAD_CHECKSUM) =>
        LET b1 == ByteOf(code, 1)
            b2 == ByteOf(code, 2)
            b3 == ByteOf(code, 3)
            b4 == ByteOf(code, 4)
        IN  IF b1 = 0 /\ b3 = 0 /\ b2 <= 60 /\ 9 <= b4 /\ b4 <= 90
            THEN status = DHT_GOOD /\ temperature = 10 * b2
                 /\ humidity = 10 * b4
            ELSE status = DHT_BAD_DATA

\* The word with b2 = 60 and b4 = 90 is GOOD, 60 degrees and 90 percent.
C10_Witness ==
    /\ frames = 1 /\ model = DHT11 /\ status = DHT_GOOD
    /\ ByteOf(code, 2) = 60 /\ ByteOf(code, 4) = 90
    /\ temperature = 600 /\ humidity = 900

\* The values of a byte.
Byte == 0..255

\* C11: under DHTXX a word with the right checksum decodes, in tenths, to
\* humidity b4*256 + b3 and temperature (b2 & 0x7F)*256 + b1, negated when
\* bit 7 of b2 is set, and is GOOD exactly when humidity <= 1100 and
\* -500 <= temperature <= 1350, BAD_DATA otherwise.
C11_DHTXXBounds ==
    (frames = 1 /\ model = DHTXX /\ status # DHT_BAD_CHECKSUM) =>
        LET b1 == ByteOf(code, 1)
            b2 == ByteOf(code, 2)
            b3 == ByteOf(code, 3)
            b4 == ByteOf(code, 4)
            humidity10 == b4 * 256 + b3
            temperature10 == IF b2 >= 128 THEN -((b2 - 128) * 256 + b1)
                             ELSE b2 * 256 + b1
        IN  IF humidity10 <= 1100 /\ -500 <= temperature10
               /\ temperature10 <= 1350
            THEN status = DHT_GOOD /\ temperature = temperature10
                 /\ humidity = humidity10
            ELSE status = DHT_BAD_DATA

\* b2 = 0x81, b1 = 0xF4, b4 = 4, b3 = 76: -50.0 degrees and 110.0 percent,
\* both bounds met, GOOD.
C11_Witness ==
    /\ frames = 1 /\ model = DHTXX /\ status = DHT_GOOD
    /\ ByteOf(code, 2) = 129 /\ ByteOf(code, 1) = 244
    /\ ByteOf(code, 4) = 4 /\ ByteOf(code, 3) = 76
    /\ temperature = -500 /\ humidity = 1100

\* C12: under AUTO a word with the right checksum gives the DHTXX
\* interpretation when that is valid, otherwise the DHT11 interpretation
\* when that is valid, and BAD_DATA only when both are invalid.
C12_AutoTriesDHTXXThenDHT11 ==
    (frames = 1 /\ model = DHTAUTO /\ status # DHT_BAD_CHECKSUM) =>
        LET b1 == ByteOf(code, 1)
            b2 == ByteOf(code, 2)
            b3 == ByteOf(code, 3)
            b4 == ByteOf(code, 4)
            xx == validate_DHTXX(b1, b2, b3, b4)
            eleven == validate_DHT11(b1, b2, b3, b4)
        IN  IF xx[1]
            THEN status = DHT_GOOD /\ temperature = xx[2] /\ humidity = xx[3]
            ELSE IF eleven[1]
            THEN status = DHT_GOOD /\ temperature = eleven[2]
                 /\ humidity = eleven[3]
            ELSE status = DHT_BAD_DATA

\* AUTO fell back: b1 = b3 = 0, b2 = 60, b4 = 90 is 60 degrees, 90 percent.
C12_Witness ==
    /\ frames = 1 /\ model = DHTAUTO /\ status = DHT_GOOD
    /\ ByteOf(code, 1) = 0 /\ ByteOf(code, 3) = 0
    /\ ByteOf(code, 2) = 60 /\ ByteOf(code, 4) = 90
    /\ temperature = 600 /\ humidity = 900

\* Whether the bytes are valid under both interpretations, with different
\* temperature or humidity.
ValidUnderBoth(b1, b2, b3, b4) ==
    LET xx == validate_DHTXX(b1, b2, b3, b4)
        eleven == validate_DHT11(b1, b2, b3, b4)
    IN  xx[1] /\ eleven[1] /\ (xx[2] # eleven[2] \/ xx[3] # eleven[3])

\* Some bytes b1..b4 are valid under both interpretations with different
\* values: b2 and b4 any byte, b1 and b3 zero, as DHT11 wants them, or a
\* byte at either end.
SomeWordValidUnderBoth ==
    \E b2 \in Byte, b4 \in Byte, b1 \in {0, 1, 255}, b3 \in {0, 1, 255} :
        ValidUnderBoth(b1, b2, b3, b4)

\* C13 as stated: among the words the interpreter may be given there are
\* words valid under both interpretations with different values, so that
\* the order of the two attempts of AUTO decides their reading.
C13_OrderDecidesSomeReading == frames = 1 => SomeWordValidUnderBoth

\* C13 amended: no word is valid under both interpretations, so under AUTO
\* a word that DHT11 accepts is always read as DHT11 and the order of the two
\* attempts changes no reading.
C13_NoWordValidUnderBoth ==
    /\ ~SomeWordValidUnderBoth
    /\ frames = 1 =>
         LET b1 == ByteOf(code, 1)
             b2 == ByteOf(code, 2)
             b3 == ByteOf(code, 3)
             b4 == ByteOf(code, 4)
         IN  /\ ~(validate_DHTXX(b1, b2, b3, b4)[1]
                    /\ validate_DHT11(b1, b2, b3, b4)[1])
             /\ (model = DHTAUTO /\ status # DHT_BAD_CHECKSUM
                   /\ validate_DHT11(b1, b2, b3, b4)[1])
                  => (status = DHT_GOOD /\ temperature = 10 * b2
                        /\ humidity = 10 * b4)

\* The smallest word DHT11 accepts (b2 = 0, b4 = 9), decoded under AUTO:
\* its DHTXX humidity is 230.4, so it is read as DHT11.
C13_Witness ==
    /\ frames = 1 /\ model = DHTAUTO /\ status = DHT_GOOD
    /\ validate_DHT11(ByteOf(code, 1), ByteOf(code, 2), ByteOf(code, 3),
                      ByteOf(code, 4))[1]
    /\ ByteOf(code, 2) = 0 /\ ByteOf(code, 4) = 9
    /\ temperature = 0 /\ humidity = 90

\* The interval the handler computes on the edge of this step (10001 for
\* anything above 10000); a step is an edge exactly when the line's tick
\* changes.
HandledInterval == Interval(tickDiff(last_edge_tick, now'))

EdgeHandled == now' # now /\ cb_id

BadWidth(d) == d <= 10000 /\ (d < 60 \/ d > 150)

\* C14 as stated: every edge handled in a frame whose interval is at most
\* 10000 and outside [60,150] leaves _in_code false, in the two discard
\* slots as well.
C14_BadWidthAlwaysAborts ==
    [][(EdgeHandled /\ in_code /\ BadWidth(HandledInterval))
          => ~in_code']_vars

\* C14 amended: such an edge leaves _in_code false when it closes a data
\* interval (_bits >= 1 after the increment); in the two discard slots
\* (_bits -1 and 0 after the increment) the width is not looked at: the
\* frame goes on, _bits counted and _code untouched.
C14_BadWidthAbortsInDataBits ==
    [][(EdgeHandled /\ in_code /\ BadWidth(HandledInterval))
          => IF bits >= 0
             THEN ~in_code' /\ bits' = bits + 1
             ELSE in_code' /\ bits' = bits + 1 /\ code' = code]_vars

\* An interval of 151 in the first discard slot, the frame still open.
C14_Witness ==
    /\ in_code /\ bits = -1 /\ gaps = 1 /\ odd = 1 /\ frames = 0
    /\ now = TickAfter(NearWrap, <<0, 151>>)
    /\ last_edge_tick = now

\* C15: from every decoder state an edge whose interval is above 10000
\* leaves _in_code true, _bits -2 and _code 0, interprets nothing, changes
\* none of status, _new_data, temperature, humidity and invokes no callback;
\* an interval of exactly 10000 starts no frame.
C15_StartGapRestarts ==
    [][EdgeHandled =>
          /\ HandledInterval > 10000 =>
                /\ in_code' /\ bits' = -2 /\ code' = <<>>
                /\ UNCHANGED <<status, new_data, temperature, humidity,
                               frames, cb_calls, cb_last>>
          /\ HandledInterval = 10000 =>
                /\ in_code' => (in_code /\ bits' = bits + 1 /\ bits < 0)
                /\ bits' # -2]_vars

\* A frame was interpreted GOOD and a start gap then opened the next: the
\* reading is still there.
C15_Witness ==
    /\ gaps = 2 /\ in_code /\ bits = -2 /\ code = <<>> /\ run = 0
    /\ frames = 1 /\ new_data /\ status = DHT_GOOD

\* C16: while the decoder is not in a frame, an edge whose interval is at
\* most 10000 changes nothing but _last_edge_tick; so a frame is interpreted
\* only as the 40th data interval since a start gap closes, and after it the
\* decoder is out of the frame until the next start gap.
C16_IdleEdgesIgnored ==
    [][/\ (EdgeHandled /\ ~in_code /\ HandledInterval <= 10000)
            => /\ UNCHANGED <<in_code, bits, code, status, new_data,
                              temperature, humidity, frames>>
               /\ last_edge_tick' = now'
       /\ frames' # frames => (run = 41 /\ run' = 42 /\ ~in_code')]_vars

\* After the interpreted frame a data-like edge of 80 came: nothing moved.
C16_Witness ==
    /\ frames = 1 /\ bits = 40 /\ ~in_code /\ new_data /\ run = -1
    /\ odd = 1 /\ code = <<>> /\ last_edge_tick = now /\ gaps = 1

\* t2 - t1 by fixed-width unsigned subtraction: (t2 - t1) mod 2^32.
Mod32Diff(t1, t2) ==
    LET d == NumSub(t2, t1)
    IN  <<d[1] % Limb, d[2]>>

\* C17 as stated: on every handled edge the interval is
\* (tick - _last_edge_tick) mod 2^32, and _last_edge_tick becomes tick.
C17_IntervalIsDifferenceMod32 ==
    [][EdgeHandled =>
          /\ tickDiff(last_edge_tick, now') = Mod32Diff(last_edge_tick, now')
          /\ last_edge_tick' = now']_vars

\* C18: between invocations of the handler -2 <= _bits <= 40, _in_code
\* implies _bits <= 39, and 0 <= _code < 2^max(_bits, 0).
C18_DecoderInvariant ==
    /\ -2 <= bits /\ bits <= 40
    /\ in_code => bits <= 39
    /\ BitLength(code) <= (IF bits > 0 THEN bits ELSE 0)
    /\ \A k \in 1..Len(code) : code[k] \in Byte
    /\ code # <<>> => code[Len(code)] # 0

\* An interpreted frame whose first data bit is 1: 40 bits, bit 39 set.
C18_Witness ==
    frames = 1 /\ bits = 40 /\ ~in_code /\ BitLength(code) = 40

\* The reading Interpret gives for the word of bytes w = <<b0, .., b4>>.
ReadingOf(m, w) == Interpret(m, w[2], w[3], w[4], w[5])

\* Whether t and h are 0.0 and 0.0 or the reading of one of the words the
\* sensor sends that is GOOD under model m.
ReadingOfAGoodFrame(m, t, h) ==
    \/ t = 0 /\ h = 0
    \/ \E w \in SensorWords :
          /\ Chksum(w[2], w[3], w[4], w[5]) = w[1]
          /\ ReadingOf(m, w)[1]
          /\ t = ReadingOf(m, w)[2]
          /\ h = ReadingOf(m, w)[3]

\* C19 as stated: temperature and humidity are written only by the
\* interpretation of a GOOD frame, and a read() that returns TIMEOUT,
\* BAD_CHECKSUM or BAD_DATA returns the temperature and humidity of a GOOD
\* frame (the most recent one), or 0.0 and 0.0 if there was none.
C19_StaleReadingIsOfAGoodFrame ==
    [][/\ (temperature' # temperature \/ humidity' # humidity)
            => (frames' # frames /\ status' = DHT_GOOD)
       /\ (pc = "callback" /\ pc' = "idle" /\ ret'.status # DHT_GOOD)
            => ReadingOfAGoodFrame(model, ret'.temperature,
                                   ret'.humidity)]_vars

\* C20 as stated: a tuple returned with status GOOD holds the temperature
\* and humidity of one single frame, interpreted GOOD during this read().
C20_GoodTupleFromOneFrame ==
    (pc = "idle" /\ reads > 0 /\ ret.status = DHT_GOOD) =>
        /\ frames_in_read >= 1
        /\ \E w \in SensorWords :
              /\ Chksum(w[2], w[3], w[4], w[5]) = w[1]
              /\ ReadingOf(model, w)[1]
              /\ ret.temperature = ReadingOf(model, w)[2]
              /\ ret.humidity = ReadingOf(model, w)[3]

=============================================================================
